---- MODULE Spec2Model ----
(***************************************************************************)
(* Katxupa lazy Sequence (src/src/sequence.ts).                            *)
(*                                                                         *)
(* A Sequence object owns one generator object.  The model keeps the table *)
(* of the Sequence objects created so far, the array the source sequences  *)
(* iterate, the number of mapper/predicate invocations, and a record of    *)
(* the last call made by the user together with the table before it.       *)
(***************************************************************************)
EXTENDS Integers, Sequences, FiniteSets, TLC

\* ------------------------------------------------------------------ bounds
MaxLen == 5      \* longest counting source array: 1, 2, ..., MaxLen
MaxCount == 2    \* largest count given to take / drop
MaxObjs == 2     \* Sequence objects alive in one run
MaxChain == 4    \* Sequence objects alive in one run of the pipeline specification
MaxSources == 2  \* source sequences alive in one run of the source specification
MaxAmount == 12  \* Duration factories are given 0..MaxAmount and the amounts of the tests
MaxArrayLen == 6 \* longest array plusAssign is let to build
MaxEnd == 6      \* ranges start and end in -2..MaxEnd
MaxStep == 3     \* ranges step by 1..MaxStep
MaxPulls == 4    \* direct pulls on the unbounded producer in one run
MaxAt == 2       \* a throwing callback throws on its 1st..MaxAt-th invocation

\* -------------------------------------------------------------- the inputs
\* the array 1, 2, ..., n; Counting(5) is the array of the README
Counting(n) == [k \in 1..n |-> k]

ReadmeSource == <<1, 2, 3, 4, 5>>

\* arrays with a repeated element and with elements out of order
Irregular == {<<2, 2>>, <<3, 1, 2>>}

Sources == {Counting(n) : n \in 0..MaxLen} \cup Irregular

\* the element a caller appends to its array: one that no source array holds
Pushed == 9

Counts == {-1, 0, MaxCount}

\* the callbacks of the README examples: x * x and x % 2 === 0, and those of
\* its chained example: x * 2 and x > 2
Mappers == {"square"}
Predicates == {"even"}
ChainMappers == {"double"}
ChainPredicates == {"gt2"}
Initials == {7}

\* reducers with their initial values: the sum of the README from 0, and a
\* reducer that tells the order and the number of its applications
Reductions == {[fn |-> "add", init |-> 0], [fn |-> "horner", init |-> 7]}

\* generator functions handed to sequenceOf: function* () { for (let i = 1; i <= n; i++) yield i }
\* with n = 5 (the class comment)
GeneratorLengths == {Len(ReadmeSource)}

Apply(fn, x) ==
    CASE fn = "square" -> x * x
      [] fn = "double" -> x * 2
      [] fn = "even"   -> IF x % 2 = 0 THEN 1 ELSE 0
      [] fn = "gt2"    -> IF x > 2 THEN 1 ELSE 0
      [] OTHER         -> x

Reduce2(fn, acc, x) == IF fn = "horner" THEN 2 * acc + x ELSE acc + x

\* ------------------------------------------------------------------- state
VARIABLES
    arr,      \* the array handed to sequenceOf / Sequence.fromIterable
    objs,     \* the Sequence objects, by creation order
    calls,    \* invocations of mapper and predicate callbacks so far
    last,     \* the last call: operation, receiver, outcome, and the state before it
    text      \* the arguments of Sequence.fromString: input and output

vars == <<arr, objs, calls, last, text>>

NoText == [input |-> <<>>, output |-> "none"]

\* `this` of a function called without a receiver, in strict-mode code
Undefined == 0

\* Sequence.constructor: this.generator = generator().  Calling a generator
\* function creates the generator object suspended at its start; no statement
\* of the body runs.  `parent` is the receiver of the map/filter/take/drop
\* call that built the generator function; the body does not capture it.
NewSeq(kind, parent, fn, count) ==
    [kind    |-> kind,
     parent  |-> parent,
     fn      |-> fn,
     count   |-> count,
     st      |-> "suspendedStart",
     i       |-> 0,       \* loop counter of take / drop
     pos     |-> 0,       \* index of the array iterator of fromIterable
     resumed |-> 0,       \* times the generator body was resumed
     sawDone |-> FALSE,   \* a next() on this sequence has returned done
     threw   |-> FALSE]   \* the generator body has thrown

\* a generator function bound to the receiver of the map/filter/take/drop call
ThisOfReceiver(m, s) == m.objs[s].parent

\* The value of `this` inside the generator function of sequence s.  The
\* constructor calls generator() without a receiver, and a class body is
\* strict-mode code, so `this` is undefined there whatever built the function.
ThisOf(m, s) == Undefined

\* a completion that rewinds the generator instead of finishing it
CompleteRewind(m, s) ==
    [m EXCEPT !.objs[s].st = "suspendedStart", !.objs[s].pos = 0, !.objs[s].i = 0]

\* a generator body that returns or throws leaves the generator completed
Complete(m, s) == [m EXCEPT !.objs[s].st = "completed"]

Yielded(m, s, x) == [m |-> [m EXCEPT !.objs[s].st = "suspendedYield"], t |-> "value", v |-> x]
Returned(m, s) == [m |-> Complete(m, s), t |-> "done", v |-> 0]

\* a throw that leaves the generator where it was, to be resumed again
ThrownResumable(m, s) == [m |-> [m EXCEPT !.objs[s].threw = TRUE], t |-> "throw", v |-> 0]

\* the body throws: the generator is completed and next() rethrows to its caller
Thrown(m, s) == [m |-> [Complete(m, s) EXCEPT !.objs[s].threw = TRUE], t |-> "throw", v |-> 0]

RECURSIVE SeqNext(_, _)
RECURSIVE FilterBody(_, _)
RECURSIVE DropBody(_, _)

\* this.next() inside a generator body: a TypeError when `this` is undefined
ThisNext(m, s) ==
    IF ThisOf(m, s) = Undefined
    THEN [m |-> m, t |-> "throw", v |-> 0]
    ELSE SeqNext(m, ThisOf(m, s))

\* an iterator that answers done at the end of the array and starts over
IterBodyWrap(m, s) ==
    LET o == m.objs[s]
    IN  IF o.pos < Len(arr)
        THEN [m |-> [m EXCEPT !.objs[s].pos = o.pos + 1, !.objs[s].st = "suspendedYield"],
              t |-> "value", v |-> arr[o.pos + 1]]
        ELSE [m |-> [m EXCEPT !.objs[s].pos = 0], t |-> "done", v |-> 0]

\* an iterator over a copy of the array made when the sequence was made
IterBodyCopy(m, s) ==
    LET o == m.objs[s]
        copy == SelectSeq(arr, LAMBDA x : x # Pushed)
    IN  IF o.pos < Len(copy)
        THEN [m |-> [m EXCEPT !.objs[s].pos = o.pos + 1, !.objs[s].st = "suspendedYield"],
              t |-> "value", v |-> copy[o.pos + 1]]
        ELSE [m |-> [m EXCEPT !.objs[s].st = "completed"], t |-> "done", v |-> 0]

\* fromIterable: for (const element of iterable) yield element.  The array
\* iterator reads the array's current length at every step.
IterBody(m, s) ==
    LET o == m.objs[s]
    IN  IF o.pos < Len(arr)
        THEN Yielded([m EXCEPT !.objs[s].pos = o.pos + 1], s, arr[o.pos + 1])
        ELSE Returned(m, s)

\* the loop of take with the bound off by one: i <= count
TakeLoopInclusive(m, s) ==
    IF m.objs[s].i <= m.objs[s].count
    THEN LET r == ThisNext(m, s)
         IN  CASE r.t = "throw" -> Thrown(r.m, s)
               [] r.t = "done"  -> Returned(r.m, s)
               [] OTHER         -> Yielded(r.m, s, r.v)
    ELSE Returned(m, s)

\* a generator function whose loop steps by two
CountingBodySkip(m, s) ==
    LET o == m.objs[s]
    IN  IF o.i < o.count
        THEN Yielded([m EXCEPT !.objs[s].i = o.i + 2], s, o.i + 2)
        ELSE Returned(m, s)

\* a caller's generator function: for (let i = 1; i <= n; i++) yield i
CountingBody(m, s) ==
    LET o == m.objs[s]
    IN  IF o.i < o.count
        THEN Yielded([m EXCEPT !.objs[s].i = o.i + 1], s, o.i + 1)
        ELSE Returned(m, s)

\* a caller's unbounded generator function: for (let i = 1; ; i++) yield i
NaturalsBody(m, s) == Yielded([m EXCEPT !.objs[s].i = @ + 1], s, m.objs[s].i + 1)

\* take: for (let i = 0; i < count; i++) { next = this.next(); if (next.done) break; yield next.value }
TakeLoop(m, s) ==
    IF m.objs[s].i < m.objs[s].count
    THEN LET r == ThisNext(m, s)
         IN  CASE r.t = "throw" -> Thrown(r.m, s)
               [] r.t = "done"  -> Returned(r.m, s)
               [] OTHER         -> Yielded(r.m, s, r.v)
    ELSE Returned(m, s)

TakeBody(m, s) ==
    IF m.objs[s].st = "suspendedStart"
    THEN TakeLoop(m, s)
    ELSE TakeLoop([m EXCEPT !.objs[s].i = @ + 1], s)

\* yield* this: a TypeError when `this` is undefined, else every next() is
\* handed to the iterator of `this`
DropDelegate(m, s) ==
    IF ThisOf(m, s) = Undefined
    THEN Thrown(m, s)
    ELSE LET r == SeqNext(m, ThisOf(m, s))
         IN  CASE r.t = "throw" -> Thrown(r.m, s)
               [] r.t = "done"  -> Returned(r.m, s)
               [] OTHER         -> Yielded(r.m, s, r.v)

\* drop: for (let i = 0; i < count; i++) { next = this.next(); if (next.done) break; } yield* this
DropBody(m, s) ==
    IF m.objs[s].st = "suspendedYield"
    THEN DropDelegate(m, s)
    ELSE IF m.objs[s].i < m.objs[s].count
         THEN LET r == ThisNext(m, s)
              IN  CASE r.t = "throw" -> Thrown(r.m, s)
                    [] r.t = "done"  -> DropDelegate(r.m, s)
                    [] OTHER         -> DropBody([r.m EXCEPT !.objs[s].i = @ + 1], s)
         ELSE DropDelegate(m, s)

\* filter: next = this.next(); while (!next.done) { if (predicate(next.value)) yield next.value; next = this.next() }
FilterBody(m, s) ==
    LET r == ThisNext(m, s)
    IN  CASE r.t = "throw" -> Thrown(r.m, s)
          [] r.t = "done"  -> Returned(r.m, s)
          [] OTHER ->
               LET m1 == [r.m EXCEPT !.calls = @ + 1]
               IN  IF Apply(m.objs[s].fn, r.v) = 1
                   THEN Yielded(m1, s, r.v)
                   ELSE FilterBody(m1, s)

\* map: next = this.next(); while (!next.done) { yield mapper(next.value); next = this.next() }
MapBody(m, s) ==
    LET r == ThisNext(m, s)
    IN  CASE r.t = "throw" -> Thrown(r.m, s)
          [] r.t = "done"  -> Returned(r.m, s)
          [] OTHER -> Yielded([r.m EXCEPT !.calls = @ + 1], s, Apply(m.objs[s].fn, r.v))

\* resuming a generator that is not completed runs its body to the next
\* yield, return or throw
GenBody(m, s) ==
    LET k == m.objs[s].kind
    IN  CASE k = "iter"   -> IterBody(m, s)
          [] k = "gen"    -> CountingBody(m, s)
          [] k = "naturals" -> NaturalsBody(m, s)
          [] k = "take"   -> TakeBody(m, s)
          [] k = "drop"   -> DropBody(m, s)
          [] k = "filter" -> FilterBody(m, s)
          [] OTHER        -> MapBody(m, s)

\* generator.next(): a completed generator answers done without running
GenNext(m, s) ==
    IF m.objs[s].st = "completed"
    THEN [m |-> m, t |-> "done", v |-> 0]
    ELSE GenBody([m EXCEPT !.objs[s].resumed = @ + 1], s)

\* Sequence.next(): return this.generator.next()
SeqNext(m, s) ==
    LET r == GenNext(m, s)
    IN  IF r.t = "done"
        THEN [r EXCEPT !.m.objs[s].sawDone = TRUE]
        ELSE r

\* ------------------------------------------------- the terminal operations
RECURSIVE ToArrayLoop(_, _, _)
RECURSIVE ToListLoop(_, _, _)
RECURSIVE SumLoop(_, _, _)
RECURSIVE CountLoop(_, _, _)
RECURSIVE ReduceLoop(_, _, _, _)
RECURSIVE ForEachLoop(_, _, _)

Outcome(m, t, val, num) == [m |-> m, t |-> t, val |-> val, num |-> num]

\* a toArray that pulls before its loop and forgets what that pull gave
ToArrayLoopSkip(m, s, result) ==
    LET r == SeqNext(m, s)
    IN  CASE r.t = "throw" -> Outcome(r.m, "throw", <<>>, 0)
          [] r.t = "done"  -> Outcome(r.m, "array", result, 0)
          [] OTHER         -> ToArrayLoop(r.m, s, result)

\* toArray: next = this.next(); while (!next.done) { result.push(next.value); next = this.next() }
ToArrayLoop(m, s, result) ==
    LET r == SeqNext(m, s)
    IN  CASE r.t = "throw" -> Outcome(r.m, "throw", <<>>, 0)
          [] r.t = "done"  -> Outcome(r.m, "array", result, 0)
          [] OTHER         -> ToArrayLoop(r.m, s, Append(result, r.v))

\* toList: the same loop as toArray
ToListLoop(m, s, result) ==
    LET r == SeqNext(m, s)
    IN  CASE r.t = "throw" -> Outcome(r.m, "throw", <<>>, 0)
          [] r.t = "done"  -> Outcome(r.m, "array", result, 0)
          [] OTHER         -> ToListLoop(r.m, s, Append(result, r.v))

\* a sum that leaves the accumulator at the last element
SumLoopLast(m, s, total) ==
    LET r == SeqNext(m, s)
    IN  CASE r.t = "throw" -> Outcome(r.m, "throw", <<>>, 0)
          [] r.t = "done"  -> Outcome(r.m, "number", <<>>, total)
          [] OTHER         -> SumLoop(r.m, s, r.v)

\* sum: total += next.value until done
SumLoop(m, s, total) ==
    LET r == SeqNext(m, s)
    IN  CASE r.t = "throw" -> Outcome(r.m, "throw", <<>>, 0)
          [] r.t = "done"  -> Outcome(r.m, "number", <<>>, total)
          [] OTHER         -> SumLoop(r.m, s, total + r.v)

\* count: while (!this.next().done) count++
CountLoop(m, s, count) ==
    LET r == SeqNext(m, s)
    IN  CASE r.t = "throw" -> Outcome(r.m, "throw", <<>>, 0)
          [] r.t = "done"  -> Outcome(r.m, "number", <<>>, count)
          [] OTHER         -> CountLoop(r.m, s, count + 1)

\* a reduce that gives the reducer its arguments the wrong way round
ReduceLoopSwapped(m, s, fn, result) ==
    LET r == SeqNext(m, s)
    IN  CASE r.t = "throw" -> Outcome(r.m, "throw", <<>>, 0)
          [] r.t = "done"  -> Outcome(r.m, "number", <<>>, result)
          [] OTHER         -> ReduceLoop(r.m, s, fn, Reduce2(fn, r.v, result))

\* reduce: result = reducer(result, next.value) until done
ReduceLoop(m, s, fn, result) ==
    LET r == SeqNext(m, s)
    IN  CASE r.t = "throw" -> Outcome(r.m, "throw", <<>>, 0)
          [] r.t = "done"  -> Outcome(r.m, "number", <<>>, result)
          [] OTHER         -> ReduceLoop(r.m, s, fn, Reduce2(fn, result, r.v))

\* a forEach that runs the action twice on every element
ForEachLoopTwice(m, s, seen) ==
    LET r == SeqNext(m, s)
    IN  CASE r.t = "throw" -> Outcome(r.m, "throw", seen, 0)
          [] r.t = "done"  -> Outcome(r.m, "void", seen, 0)
          [] OTHER         -> ForEachLoop(r.m, s, Append(Append(seen, r.v), r.v))

\* forEach: action(next.value) until done; val is what action was given
ForEachLoop(m, s, seen) ==
    LET r == SeqNext(m, s)
    IN  CASE r.t = "throw" -> Outcome(r.m, "throw", seen, 0)
          [] r.t = "done"  -> Outcome(r.m, "void", seen, 0)
          [] OTHER         -> ForEachLoop(r.m, s, Append(seen, r.v))

\* ------------------------------------------------------------- the actions
Mem == [objs |-> objs, calls |-> calls]

NoCall ==
    [op |-> "none", target |-> 0, arg |-> 0, t |-> "none", val |-> <<>>, num |-> 0,
     pre |-> [objs |-> <<>>, calls |-> 0]]

\* a constructor that primes the pipeline: it pulls the receiver once
ConstructEager(m, kind, parent, fn, count) ==
    LET m1 == IF parent = 0 THEN m ELSE SeqNext(m, parent).m
    IN  [m1 EXCEPT !.objs = Append(@, NewSeq(kind, parent, fn, count))]

\* new Sequence(generatorFunction): the object joins the table, unstarted
Construct(m, kind, parent, fn, count) ==
    [m EXCEPT !.objs = Append(@, NewSeq(kind, parent, fn, count))]

Record(op, s, arg, r) ==
    /\ objs' = r.m.objs
    /\ calls' = r.m.calls
    /\ last' = [op |-> op, target |-> s, arg |-> arg, t |-> r.t, val |-> r.val,
                num |-> r.num, pre |-> Mem]
    /\ UNCHANGED <<arr, text>>

Created(op, s, arg, m) == Record(op, s, arg, Outcome(m, "seq", <<>>, 0))

Ids == 1..Len(objs)

MapOn(s, f) == Created("map", s, 0, Construct(Mem, "map", s, f, 0))
FilterOn(s, p) == Created("filter", s, 0, Construct(Mem, "filter", s, p, 0))
TakeOn(s, n) == Created("take", s, n, Construct(Mem, "take", s, "none", n))
DropOn(s, n) == Created("drop", s, n, Construct(Mem, "drop", s, "none", n))

Map == Len(objs) < MaxObjs /\ \E s \in Ids, f \in Mappers : MapOn(s, f)
Filter == Len(objs) < MaxObjs /\ \E s \in Ids, p \in Predicates : FilterOn(s, p)
Take == Len(objs) < MaxObjs /\ \E s \in Ids, n \in Counts : TakeOn(s, n)
Drop == Len(objs) < MaxObjs /\ \E s \in Ids, n \in Counts : DropOn(s, n)

NextCall ==
    \E s \in Ids :
        LET r == SeqNext(Mem, s)
        IN  Record("next", s, 0,
                   Outcome(r.m, r.t, IF r.t = "value" THEN <<r.v>> ELSE <<>>, 0))

ToArray == \E s \in Ids : Record("toArray", s, 0, ToArrayLoop(Mem, s, <<>>))
ToList == \E s \in Ids : Record("toList", s, 0, ToListLoop(Mem, s, <<>>))
Sum == \E s \in Ids : Record("sum", s, 0, SumLoop(Mem, s, 0))
Count == \E s \in Ids : Record("count", s, 0, CountLoop(Mem, s, 0))
Reduce == \E s \in Ids, init \in Initials : Record("reduce", s, init, ReduceLoop(Mem, s, "add", init))
ForEach == \E s \in Ids : Record("forEach", s, 0, ForEachLoop(Mem, s, <<>>))

Init ==
    /\ arr \in Sources
    /\ objs = Construct([objs |-> <<>>, calls |-> 0], "iter", 0, "none", 0).objs
    /\ calls = 0
    /\ last = NoCall
    /\ text = NoText

Next ==
    \/ Map
    \/ Filter
    \/ Take
    \/ Drop
    \/ NextCall
    \/ ToArray
    \/ ToList
    \/ Sum
    \/ Count
    \/ Reduce
    \/ ForEach

Spec == Init /\ [][Next]_vars

\* pipelines: every transformation is called on the newest sequence, with the
\* callbacks of the README's chained example
ChainMap == Len(objs) < MaxChain /\ \E f \in ChainMappers : MapOn(Len(objs), f)
ChainFilter == Len(objs) < MaxChain /\ \E p \in ChainPredicates : FilterOn(Len(objs), p)
ChainTake == Len(objs) < MaxChain /\ \E n \in Counts : TakeOn(Len(objs), n)

NextChain ==
    \/ ChainMap
    \/ ChainFilter
    \/ ChainTake
    \/ NextCall
    \/ ToArray

SpecChain == Init /\ [][NextChain]_vars

\* ------------------------------------------------------- source sequences
\* what sequenceOf can be given: the array, or a generator function
SourceArgs ==
    {[type |-> "object", n |-> 0]} \cup {[type |-> "function", n |-> k] : k \in GeneratorLengths}

\* sequenceOf with its test the wrong way round
SourceKindInverted(type) == IF type = "function" THEN "iter" ELSE "gen"

\* sequenceOf: typeof source === 'function' ? new Sequence(source) : Sequence.fromIterable(source)
SourceKind(type) == IF type = "function" THEN "gen" ELSE "iter"

SequenceOf ==
    /\ Len(objs) < MaxSources
    /\ \E src \in SourceArgs :
           Created("sequenceOf", 0, src.n, Construct(Mem, SourceKind(src.type), 0, src.type, src.n))

SourceReduce ==
    \E s \in Ids, f \in Reductions :
        Record("reduce", s, f.init, ReduceLoop(Mem, s, f.fn, f.init))

InitSource ==
    /\ arr \in Sources
    /\ objs = <<>>
    /\ calls = 0
    /\ last = NoCall
    /\ text = NoText

NextSource ==
    \/ SequenceOf
    \/ NextCall
    \/ ToArray
    \/ ToList
    \/ Sum
    \/ Count
    \/ SourceReduce
    \/ ForEach

SpecSource == InitSource /\ [][NextSource]_vars

TypeOK ==
    /\ arr \in Sources
    /\ Len(objs) \in 1..MaxChain
    /\ calls \in Nat

\* ---------------------------------------------------------- the properties
Max2(a, b) == IF a > b THEN a ELSE b
Min2(a, b) == IF a < b THEN a ELSE b

\* what the operations are documented to produce, over an array a
MapSeq(f, a) == [k \in 1..Len(a) |-> Apply(f, a[k])]
FilterSeq(p, a) == SelectSeq(a, LAMBDA x : Apply(p, x) = 1)
TakeSeq(n, a) == SubSeq(a, 1, Min2(Max2(n, 0), Len(a)))
DropSeq(n, a) == SubSeq(a, Max2(n, 0) + 1, Len(a))

\* index in a of the n-th element satisfying p; Len(a) when there are fewer
RECURSIVE NthMatch(_, _, _, _)
NthMatch(p, a, n, k) ==
    IF n <= 0 THEN k
    ELSE IF k >= Len(a) THEN Len(a)
    ELSE NthMatch(p, a, IF Apply(p, a[k + 1]) = 1 THEN n - 1 ELSE n, k + 1)

Transformations == {"map", "filter", "take", "drop"}
Terminals == {"toArray", "toList", "sum", "count", "reduce", "forEach"}

Pre == last.pre.objs
Target == last.target

\* the receiver of the last call was a not yet started sequence of kind k,
\* built on a not yet pulled source sequence
OnFresh(k) ==
    /\ Pre[Target].kind = k
    /\ Pre[Target].st = "suspendedStart"
    /\ Pre[Pre[Target].parent].kind = "iter"
    /\ Pre[Pre[Target].parent].st = "suspendedStart"

\* the receiver of the last call was the not yet started pipeline
\* source.filter(p).map(f).take(n)
OnFreshPipeline ==
    /\ Target = 4
    /\ Pre[4].kind = "take" /\ Pre[3].kind = "map" /\ Pre[2].kind = "filter"
    /\ \A s \in 1..4 : Pre[s].st = "suspendedStart"

\* the receiver of the last call was the not yet started source.filter(p).take(n)
OnFreshFilterTake ==
    /\ Target = 3
    /\ Pre[3].kind = "take" /\ Pre[2].kind = "filter"
    /\ \A s \in 1..3 : Pre[s].st = "suspendedStart"

\* C1: filter(p).map(f).take(n).toArray() over a finite source returns the
\* first n source elements satisfying p, in source order, each mapped by f
\* (x > 2, x * 2, n = 2 over 1..5 gives 6, 8).
C1_FilterMapTake ==
    (last.op = "toArray" /\ OnFreshPipeline) =>
        /\ last.t = "array"
        /\ last.val = TakeSeq(Pre[4].count, MapSeq(Pre[3].fn, FilterSeq(Pre[2].fn, arr)))

\* C2: map(f).toArray() over a finite source returns f of every source
\* element, in source order, as many as the source has.
C2_MapToArray ==
    (last.op = "toArray" /\ OnFresh("map")) =>
        /\ last.t = "array"
        /\ last.val = MapSeq(Pre[Target].fn, arr)
        /\ Len(last.val) = Len(arr)

\* C3: filter(p).toArray() over a finite source returns exactly the source
\* elements satisfying p, in source order.
C3_FilterToArray ==
    (last.op = "toArray" /\ OnFresh("filter")) =>
        /\ last.t = "array"
        /\ last.val = FilterSeq(Pre[Target].fn, arr)

\* C4: take(n).toArray() over a source of length L returns the first
\* min(max(n, 0), L) source elements, for every integer n.
C4_TakeToArray ==
    (last.op = "toArray" /\ OnFresh("take")) =>
        /\ last.t = "array"
        /\ last.val = TakeSeq(Pre[Target].count, arr)

\* C5: drop(n).toArray() for n >= 0 returns the source elements from
\* position n on, and the empty array, without error, when the source has
\* no more than n elements.
C5_DropToArray ==
    (last.op = "toArray" /\ OnFresh("drop") /\ Pre[Target].count >= 0) =>
        /\ last.t = "array"
        /\ last.val = DropSeq(Pre[Target].count, arr)

\* C6: calling map, filter, take or drop pulls nothing from any existing
\* sequence and runs no callback, and leaves the new sequence unstarted; an
\* existing sequence other than the receiver of the call advances, and a
\* callback runs, only in a next() or a terminal operation.
C6_Lazy ==
    /\ last.op \in Transformations =>
           /\ SubSeq(objs, 1, Len(Pre)) = Pre
           /\ calls = last.pre.calls
           /\ Len(objs) = Len(Pre) + 1
           /\ objs[Len(objs)].st = "suspendedStart"
           /\ objs[Len(objs)].resumed = 0
    /\ (calls # last.pre.calls \/ \E s \in 1..Len(Pre) : objs[s] # Pre[s]) =>
           last.op \in Terminals \cup {"next"}

\* a transformation was called on a source that had been pulled once and
\* has more to give
C6_Witness ==
    /\ last.op \in Transformations
    /\ Pre[Target].kind = "iter" /\ Pre[Target].pos = 1 /\ Len(arr) >= 2
    /\ objs[Target].pos = 1

\* C7: take(n).toArray() for n <= 0 returns the empty array and leaves
\* every other sequence, the source among them, as it was: not pulled once.
C7_TakeZero ==
    (last.op = "toArray" /\ Pre[Target].kind = "take" /\ Pre[Target].count <= 0) =>
        /\ last.t = "array"
        /\ last.val = <<>>
        /\ \A s \in 1..Len(Pre) : s # Target => objs[s] = Pre[s]
        /\ objs[Pre[Target].parent].resumed = Pre[Pre[Target].parent].resumed

\* take(0).toArray() ran on a fresh take over a fresh non-empty source
C7_Witness ==
    /\ last.op = "toArray" /\ OnFresh("take") /\ Pre[Target].count = 0
    /\ Len(arr) >= 3
    /\ objs[Pre[Target].parent].resumed = 0
    /\ objs[Target].sawDone

\* C8: driving source.filter(p).take(n) to exhaustion returns normally with
\* the source pulled up to and including the n-th element satisfying p (the
\* whole source when there are fewer), and no further.
C8_FilterTakePulls ==
    (last.op = "toArray" /\ OnFreshFilterTake) =>
        /\ last.t = "array"
        /\ objs[1].pos = NthMatch(Pre[2].fn, arr, Pre[3].count, 0)

\* C9: a terminal operation on a sequence over an array that has already
\* signalled exhaustion returns its empty result and raises nothing.
C9_ExhaustedEmpty ==
    (last.op \in Terminals /\ Pre[Target].kind = "iter" /\ Pre[Target].sawDone) =>
        /\ last.t = CASE last.op \in {"toArray", "toList"} -> "array"
                      [] last.op = "forEach" -> "void"
                      [] OTHER -> "number"
        /\ last.val = <<>>
        /\ last.num = IF last.op = "reduce" THEN last.arg ELSE 0

\* a terminal operation ran on a source over a non-empty array that an
\* earlier terminal operation had drained
C9_Witness ==
    /\ last.op = "reduce"
    /\ Pre[Target].kind = "iter" /\ Pre[Target].sawDone /\ Pre[Target].pos = Len(arr)
    /\ Len(arr) >= 2
    /\ last.num = last.arg

\* C10: once next() has returned done on a sequence, of any kind, every
\* later next() on that sequence returns done with no value.
C10_NoResurrection ==
    (last.op = "next" /\ Pre[Target].sawDone) =>
        /\ last.t = "done"
        /\ last.val = <<>>

\* next() was called on a source over a non-empty array after it had
\* returned done
C10_Witness ==
    /\ last.op = "next" /\ Pre[Target].sawDone
    /\ Pre[Target].kind = "iter" /\ Len(arr) >= 1
    /\ last.t = "done"

\* ------------------------------------------------------ Sequence.fromString
\* a string is the sequence of its characters
HelloWorld == <<"H", "e", "l", "l", "o", " ", "w", "o", "r", "l", "d", "!">>
Hello == <<"H", "e", "l", "l", "o">>

Texts == {HelloWorld, <<>>, <<"a">>, <<"!", "a", " ", " ", "d">>, <<"w", "o", "r", "d", " ", "a">>}
Outputs == {"char", "word", "omitted"}

Letters == {"H", "e", "l", "o", "w", "r", "d", "a"}
Class(c) == IF c \in Letters THEN "letter" ELSE IF c = " " THEN "space" ELSE "other"

\* input[Symbol.iterator](): one character per step, left to right
Chars(input) == [k \in 1..Len(input) |-> <<input[k]>>]

\* Intl.Segmenter('en', { granularity: 'word' }): a run of letters is one
\* segment, a run of spaces is one segment, any other character is its own
RECURSIVE Segment(_)
Segment(input) ==
    IF input = <<>> THEN <<>>
    ELSE LET c == Head(input)
             rest == Segment(Tail(input))
         IN  IF rest # <<>> /\ Class(c) # "other" /\ Class(Head(rest)[1]) = Class(c)
             THEN <<(<<c>> \o Head(rest))>> \o Tail(rest)
             ELSE <<(<<c>>)>> \o rest

\* a fromString whose test forgets the omitted argument
FromStringItemsNoDefault(input, output) ==
    IF output = "word" THEN Segment(input) ELSE Chars(input)

\* fromString: if (!output || output === "word") the segments, else the characters
FromStringItems(input, output) ==
    IF output = "omitted" \/ output = "word" THEN Segment(input) ELSE Chars(input)

FromString ==
    /\ objs = <<>>
    /\ \E input \in Texts, output \in Outputs :
           /\ arr' = FromStringItems(input, output)
           /\ text' = [input |-> input, output |-> output]
           /\ objs' = Construct(Mem, "iter", 0, "none", 0).objs
           /\ last' = [NoCall EXCEPT !.op = "fromString", !.t = "seq", !.pre = Mem]
           /\ UNCHANGED calls

InitString ==
    /\ arr = <<>>
    /\ objs = <<>>
    /\ calls = 0
    /\ last = NoCall
    /\ text = NoText

NextString ==
    \/ FromString
    \/ NextCall
    \/ ToArray

SpecString == InitString /\ [][NextString]_vars

\* ------------------------------------------------------------------ Duration
\* a number as mantissa * 10 ^ exponent, the mantissa without trailing zeros
RECURSIVE Normal(_)
Normal(x) ==
    IF x.m = 0 THEN [m |-> 0, e |-> 0]
    ELSE IF x.m % 10 = 0 THEN Normal([m |-> x.m \div 10, e |-> x.e + 1])
    ELSE x

Number(n) == Normal([m |-> n, e |-> 0])
Scaled(x, k) == Normal([m |-> x.m, e |-> x.e + k])

\* new Duration(milliseconds)
NewDuration(ms, factory, amount) ==
    [milliseconds |-> ms, factory |-> factory, amount |-> amount]

\* Duration.microseconds: new Duration(microseconds * 1e3)
DurationMicroseconds(n) == Scaled(Number(n), 3)
\* Duration.milliseconds: new Duration(milliseconds)
DurationMilliseconds(n) == Number(n)
\* Duration.seconds: new Duration(seconds * 1e3)
DurationSeconds(n) == Scaled(Number(n), 3)
\* durationOf(milliseconds): Duration.microseconds(milliseconds)
DurationOf(n) == DurationMicroseconds(n)
\* inWholeSeconds: this.milliseconds / 1000
InWholeSeconds(d) == Scaled(d.milliseconds, -3)

Amounts == (0..MaxAmount) \cup {60, 5000, 5000000}

Made(op, d) == [NoCall EXCEPT !.op = op, !.t = "duration", !.arg = d.amount, !.pre = Mem]

Microseconds ==
    /\ \E n \in Amounts :
           LET d == NewDuration(DurationMicroseconds(n), "microseconds", n)
           IN  objs' = <<d>> /\ last' = Made("microseconds", d)
    /\ UNCHANGED <<arr, calls, text>>

Milliseconds ==
    /\ \E n \in Amounts :
           LET d == NewDuration(DurationMilliseconds(n), "milliseconds", n)
           IN  objs' = <<d>> /\ last' = Made("milliseconds", d)
    /\ UNCHANGED <<arr, calls, text>>

Seconds ==
    /\ \E n \in Amounts :
           LET d == NewDuration(DurationSeconds(n), "seconds", n)
           IN  objs' = <<d>> /\ last' = Made("seconds", d)
    /\ UNCHANGED <<arr, calls, text>>

DurationOfCall ==
    /\ \E n \in Amounts :
           LET d == NewDuration(DurationOf(n), "durationOf", n)
           IN  objs' = <<d>> /\ last' = Made("durationOf", d)
    /\ UNCHANGED <<arr, calls, text>>

InWholeSecondsCall ==
    /\ objs # <<>>
    /\ last.op # "inWholeSeconds"
    /\ LET x == InWholeSeconds(objs[1])
       IN  last' = [NoCall EXCEPT !.op = "inWholeSeconds", !.t = "number", !.target = 1,
                                  !.val = <<x.m, x.e>>, !.pre = Mem]
    /\ UNCHANGED <<arr, objs, calls, text>>

NextDuration ==
    \/ Microseconds
    \/ Milliseconds
    \/ Seconds
    \/ DurationOfCall
    \/ InWholeSecondsCall

SpecDuration == InitString /\ [][NextDuration]_vars

\* ------------------------------------------- properties of the terminals
RECURSIVE Fold(_, _, _)
Fold(fn, acc, a) == IF a = <<>> THEN acc ELSE Fold(fn, Reduce2(fn, acc, Head(a)), Tail(a))

RECURSIVE SumOf(_)
SumOf(a) == IF a = <<>> THEN 0 ELSE Head(a) + SumOf(Tail(a))

\* the elements a source sequence is made to give, in their natural order
Elements(o) == IF o.fn = "function" THEN Counting(o.count) ELSE arr

IsSource(o) == o.kind \in {"iter", "gen"}

\* sequences whose pulls give elements or done: the sources, every
\* completed sequence, and take with a count <= 0
Gives(o) == IsSource(o) \/ o.st = "completed" \/ (o.kind = "take" /\ o.count <= 0)

\* what such a sequence has left to give
Remaining(o) ==
    IF IsSource(o) /\ o.st # "completed"
    THEN SubSeq(Elements(o), o.resumed + 1, Len(Elements(o)))
    ELSE <<>>

\* C11: with callbacks that do not throw, no operation on a sequence over a
\* finite numeric source raises an error.
C11_NoThrow == last.t # "throw"

Other == 3 - Target

\* C13: count() and sum() on one sequence equal the length and the sum of
\* toArray() on an independent sequence over an equal source, and leave
\* their sequence exhausted.
C13_CountSumAgree ==
    (/\ last.op \in {"count", "sum"}
     /\ Len(objs) = 2
     /\ Pre[Target].st = "suspendedStart" /\ objs[Other].st = "suspendedStart"
     /\ Elements(objs[Other]) = Elements(objs[Target])) =>
        LET twin == ToArrayLoop(Mem, Other, <<>>)
        IN  /\ last.t = "number" /\ twin.t = "array"
            /\ last.op = "count" => last.num = Len(twin.val)
            /\ last.op = "sum" => last.num = SumOf(twin.val)
            /\ objs[Target].st = "completed" /\ objs[Target].sawDone

\* sum ran on a fresh sequence over the out-of-order array while a second
\* sequence over the same array was still fresh
C13_Witness ==
    /\ last.op = "sum" /\ Len(objs) = 2 /\ arr = <<3, 1, 2>>
    /\ Pre[Target].st = "suspendedStart" /\ objs[Other].st = "suspendedStart"
    /\ objs[1].kind = "iter" /\ objs[2].kind = "iter"
    /\ last.num = 6

C16_NextSteps ==
    (last.op = "next" /\ IsSource(Pre[Target]) /\ ~Pre[Target].sawDone) =>
        LET i == Pre[Target].resumed + 1
            e == Elements(Pre[Target])
        IN  /\ objs[Target].resumed = i
            /\ i <= Len(e) => (last.t = "value" /\ last.val = <<e[i]>>)
            /\ i > Len(e) => (i = Len(e) + 1 /\ last.t = "done" /\ last.val = <<>>)

\* the third next() on a generator-function source returned its third element
C16_Witness ==
    /\ last.op = "next" /\ Pre[Target].kind = "gen"
    /\ Pre[Target].resumed = 2
    /\ last.val = <<3>>

\* C17: one Sequence object serves several operations: sum() right after
\* toList() returned 1, 2, 3, 4, 5 on the same object returns 15.
C17_Reuse ==
    [][(/\ last.op = "toList" /\ last.val = ReadmeSource
        /\ last'.op = "sum" /\ last'.target = last.target)
       => last'.num = 15]_vars

RECURSIVE Flat(_)
Flat(a) == IF a = <<>> THEN <<>> ELSE Head(a) \o Flat(Tail(a))

UnitExponent(factory) ==
    CASE factory = "microseconds" -> -6
      [] factory = "seconds"      -> 0
      [] OTHER                    -> -3

\* C20: every Duration factory makes the duration it names: microseconds(n)
\* is n microseconds, durationOf(ms) and milliseconds(ms) are ms
\* milliseconds, seconds(n) is n seconds, as inWholeSeconds reports them.
C20_DurationUnits ==
    last.op = "inWholeSeconds" =>
        LET want == Scaled(Number(objs[1].amount), UnitExponent(objs[1].factory))
        IN  last.val = <<want.m, want.e>>

\* ------------------------------------------------------------------ Optional
\* JavaScript values: a type and an integer; a string is numbered by its
\* content ("" is 0, " " is 1, "a" is 2), an array by its length
Val(type, n) == [type |-> type, n |-> n]

JsUndefined == Val("undefined", 0)
JsNaN == Val("NaN", 0)
EmptyString == Val("string", 0)
BlankString == Val("string", 1)

Values ==
    {JsUndefined, Val("null", 0), EmptyString, BlankString, Val("string", 2),
     Val("boolean", 0), Val("boolean", 1), Val("array", 0)}
        \cup {Val("number", n) : n \in {0, 1, 5, 42}}

\* the default argument of map: left out, or any value
Defaults == {[supplied |-> FALSE, value |-> JsUndefined]} \cup {[supplied |-> TRUE, value |-> v] : v \in Values}

\* the conversion of a value to a number by the operator *
ToNumber(v) ==
    CASE v.type = "number"    -> v
      [] v.type = "boolean"   -> Val("number", v.n)
      [] v.type = "null"      -> Val("number", 0)
      [] v.type = "array"     -> IF v.n = 0 THEN Val("number", 0) ELSE JsNaN
      [] v.type = "string"    -> IF v.n \in {0, 1} THEN Val("number", 0) ELSE JsNaN
      [] OTHER                -> JsNaN

\* the conversion of a value to a boolean by if (...) and ||
Truthy(v) ==
    CASE v.type \in {"undefined", "null", "NaN"} -> FALSE
      [] v.type \in {"number", "boolean", "string"} -> v.n # 0
      [] OTHER -> TRUE

Times2(v) == IF ToNumber(v) = JsNaN THEN JsNaN ELSE Val("number", ToNumber(v).n * 2)

\* the mappers of the tests: x => x * 2 and x => (x || 1) * 2
OptionalMappers == {"times2", "orOneTimes2"}

ApplyMapper(fn, v) ==
    IF fn = "orOneTimes2" /\ ~Truthy(v) THEN Val("number", 2) ELSE Times2(v)

\* Optional.of: new Optional(value)
OptionalOf(v) == [value |-> v]

\* Optional.empty: Optional.of(undefined)
OptionalEmpty == OptionalOf(JsUndefined)

\* isEmpty: undefined, null, a blank string, an empty Map, Set or array
IsEmpty(o) ==
    \/ o.value.type \in {"undefined", "null"}
    \/ o.value.type = "string" /\ o.value.n \in {0, 1}
    \/ o.value.type = "array" /\ o.value.n = 0

IsPresent(o) == ~IsEmpty(o)

\* map: present -> Optional.of(mapper(value)); if (defaultValue) ->
\* Optional.of(defaultValue); else throw
OptionalMap(o, fn, d) ==
    IF IsPresent(o) THEN [t |-> "optional", val |-> <<OptionalOf(ApplyMapper(fn, o.value))>>]
    ELSE IF Truthy(d.value) THEN [t |-> "optional", val |-> <<OptionalOf(d.value)>>]
    ELSE [t |-> "throw", val |-> <<>>]

Of ==
    /\ \E v \in Values :
           /\ objs' = <<OptionalOf(v)>>
           /\ last' = [NoCall EXCEPT !.op = "of", !.t = "optional", !.pre = Mem]
    /\ UNCHANGED <<arr, calls, text>>

Empty ==
    /\ objs' = <<OptionalEmpty>>
    /\ last' = [NoCall EXCEPT !.op = "empty", !.t = "optional", !.pre = Mem]
    /\ UNCHANGED <<arr, calls, text>>

MapCall ==
    /\ objs # <<>>
    /\ \E fn \in OptionalMappers, d \in Defaults :
           LET r == OptionalMap(objs[1], fn, d)
           IN  last' = [op |-> "optionalMap", target |-> 1, arg |-> <<fn, d>>, t |-> r.t,
                        val |-> r.val, num |-> 0, pre |-> Mem]
    /\ UNCHANGED <<arr, objs, calls, text>>

NextOptional ==
    \/ Of
    \/ Empty
    \/ MapCall

SpecOptional == InitString /\ [][NextOptional]_vars

\* C21: map on an empty Optional returns an Optional holding the default
\* whenever a default is supplied, whatever its value, and throws only when
\* none is supplied; on a present Optional it returns an Optional of
\* mapper(value) and never uses the default.
C21_MapDefault ==
    last.op = "optionalMap" =>
        LET o == objs[1]
            fn == last.arg[1]
            d == last.arg[2]
        IN  /\ IsPresent(o) => (last.t = "optional" /\ last.val = <<OptionalOf(ApplyMapper(fn, o.value))>>)
            /\ (IsEmpty(o) /\ d.supplied) => (last.t = "optional" /\ last.val = <<OptionalOf(d.value)>>)
            /\ (IsEmpty(o) /\ ~d.supplied) => last.t = "throw"

\* ------------------------------------------------------- Array extensions
\* the array of the tests, and arrays with repeated elements
Receivers == {<<>>, <<5>>, <<3, 3>>, <<1, 2, 1>>, <<2, 3, 2, 3>>, ReadmeSource}

\* the arguments of the tests, and arguments with a repeated element
Collections == {<<>>, <<1>>, <<2, 2>>, <<3, 5>>, <<6, 7, 8>>}

\* other.includes(element)
Includes(other, element) == \E k \in 1..Len(other) : other[k] = element

\* this.indexOf(element): the first index, from 0, or -1
IndexOf(a, element) ==
    IF Includes(a, element)
    THEN (CHOOSE k \in 1..Len(a) : a[k] = element /\ \A j \in 1..(k - 1) : a[j] # element) - 1
    ELSE -1

\* this.splice(index, 1): removes the element at index, if there is one
Splice(a, index) ==
    IF index < Len(a)
    THEN SubSeq(a, 1, index) \o SubSeq(a, index + 2, Len(a))
    ELSE a

\* this.filter((element) => !other.includes(element))
Without(a, other) == SelectSeq(a, LAMBDA element : ~Includes(other, element))

\* the outcome of a call on an array: the receiver afterwards, the array
\* returned, and whether the array returned is the receiver itself
ArrayOutcome(this, val, ret) == [this |-> this, val |-> val, ret |-> ret]

\* plus: return this.concat(other)
ArrayPlus(this, other) == ArrayOutcome(this, this \o other, "new")

\* minus: return this.filter(...)
ArrayMinus(this, other) == ArrayOutcome(this, Without(this, other), "new")

\* a plusAssign that returns the concatenation and leaves the receiver alone
ArrayPlusAssignCopy(this, other) == ArrayOutcome(this, this \o other, "this")

\* plusAssign: this.push(...other); return this
ArrayPlusAssign(this, other) == ArrayOutcome(this \o other, this \o other, "this")

\* minusAssign (part_003): resultArray = this.filter(...); this.length = 0;
\* this.push(...resultArray); return this
ArrayMinusAssign(this, other) == ArrayOutcome(Without(this, other), Without(this, other), "this")

ArrayCall(op, other, r) ==
    /\ arr' = r.this
    /\ last' = [op |-> op, arg |-> other, t |-> "array", val |-> r.val, ret |-> r.ret,
                k |-> 0, index |-> -1, pc |-> "none", pre |-> arr]
    /\ UNCHANGED <<objs, calls, text>>

\* no call is running: the caller makes its next call
Idle == last.t # "running"

Plus == Idle /\ \E other \in Collections : ArrayCall("plus", other, ArrayPlus(arr, other))
Minus == Idle /\ \E other \in Collections : ArrayCall("minus", other, ArrayMinus(arr, other))

PlusAssign ==
    /\ Idle
    /\ \E other \in Collections :
           /\ Len(arr) + Len(other) <= MaxArrayLen
           /\ ArrayCall("plusAssign", other, ArrayPlusAssign(arr, other))

MinusAssign ==
    Idle /\ \E other \in Collections : ArrayCall("minusAssign", other, ArrayMinusAssign(arr, other))

\* minusAssign (part_004), a call in progress:
\*   for (const element of collection) {
\*       const index = this.indexOf(element);
\*       while (index !== -1) { this.splice(index, 1); } }
\*   return this;
\* k counts the elements of collection taken so far, index is the const of
\* the current round, pc is the statement to run next
MinusAssignSplice ==
    /\ Idle
    /\ \E collection \in Collections :
           last' = [op |-> "minusAssign", arg |-> collection, t |-> "running", val |-> <<>>,
                    ret |-> "none", k |-> 0, index |-> -1, pc |-> "for", pre |-> arr]
    /\ UNCHANGED <<arr, objs, calls, text>>

\* the for-of takes the next element and computes index, or ends the loop
\* and the call returns this
ForOf ==
    /\ last.t = "running" /\ last.pc = "for"
    /\ IF last.k < Len(last.arg)
       THEN last' = [last EXCEPT !.k = @ + 1, !.index = IndexOf(arr, last.arg[last.k + 1]),
                                 !.pc = "while"]
       ELSE last' = [last EXCEPT !.t = "array", !.val = arr, !.ret = "this", !.pc = "none"]
    /\ UNCHANGED <<arr, objs, calls, text>>

\* the test of while (index !== -1)
While ==
    /\ last.t = "running" /\ last.pc = "while"
    /\ last' = [last EXCEPT !.pc = IF last.index # -1 THEN "splice" ELSE "for"]
    /\ UNCHANGED <<arr, objs, calls, text>>

\* the body of the while: this.splice(index, 1), and back to the test
WhileBody ==
    /\ last.t = "running" /\ last.pc = "splice"
    /\ arr' = Splice(arr, last.index)
    /\ last' = [last EXCEPT !.pc = "while"]
    /\ UNCHANGED <<objs, calls, text>>

InitArray ==
    /\ arr \in Receivers
    /\ objs = <<>>
    /\ calls = 0
    /\ last = [op |-> "none", arg |-> <<>>, t |-> "none", val |-> <<>>, ret |-> "none",
               k |-> 0, index |-> -1, pc |-> "none", pre |-> <<>>]
    /\ text = NoText

NextArray ==
    \/ Plus
    \/ Minus
    \/ PlusAssign
    \/ MinusAssign
    \/ MinusAssignSplice
    \/ ForOf
    \/ While
    \/ WhileBody

SpecArray == InitArray /\ [][NextArray]_vars

\* a call that has begun keeps running: the engine does not stop in the
\* middle of a loop
SpecArrayFair == SpecArray /\ WF_vars(ForOf) /\ WF_vars(While) /\ WF_vars(WhileBody)

C23_Terminates == (last.t = "running") ~> (last.t = "array")

\* --------------------------------------------------------------------- Range
Starts == -2..MaxEnd
Ends == -2..MaxEnd
Steps == 1..MaxStep

\* Math.floor(x / step), step a positive integer
Floor(x, step) == x \div step

\* range: length = Math.floor((end - start) / step) + 1;
\* Array.from({length}, (_, index) => start + index * step), where a length
\* below 0 counts as 0
RangeOf(start, end, step) ==
    LET length == Floor(end - start, step) + 1
        at(index) == start + index * step
    IN  [k \in 1..Max2(length, 0) |-> at(k - 1)]

\* rangeTo: return Range.range(start, end, step)
RangeTo(start, end, step) == RangeOf(start, end, step)

\* a rangeUntil that keeps the end
RangeUntilInclusive(start, end, step) == RangeOf(start, end, step)

\* rangeUntil: return Range.range(start, end - 1, step)
RangeUntil(start, end, step) == RangeOf(start, end - 1, step)

RangeResult(op, start, end, step, val) ==
    [NoCall EXCEPT !.op = op, !.arg = <<start, end, step>>, !.t = "array", !.val = val,
                   !.pre = Mem]

RangeCall ==
    /\ \E start \in Starts, end \in Ends, step \in Steps :
           last' = RangeResult("range", start, end, step, RangeOf(start, end, step))
    /\ UNCHANGED <<arr, objs, calls, text>>

RangeToCall ==
    /\ \E start \in Starts, end \in Ends, step \in Steps :
           last' = RangeResult("rangeTo", start, end, step, RangeTo(start, end, step))
    /\ UNCHANGED <<arr, objs, calls, text>>

RangeUntilCall ==
    /\ \E start \in Starts, end \in Ends, step \in Steps :
           last' = RangeResult("rangeUntil", start, end, step, RangeUntil(start, end, step))
    /\ UNCHANGED <<arr, objs, calls, text>>

NextRange ==
    \/ RangeCall
    \/ RangeToCall
    \/ RangeUntilCall

SpecRange == InitString /\ [][NextRange]_vars

\* the values start, start + step, start + 2 * step, ... that are in S
InProgression(start, step, S) == {v \in S : v >= start /\ (v - start) % step = 0}

\* a is the increasing enumeration of the set S
Enumerates(a, S) ==
    /\ Len(a) = Cardinality(S)
    /\ \A k \in 1..Len(a) : a[k] \in S
    /\ \A k \in 1..(Len(a) - 1) : a[k] < a[k + 1]

C25_MapDrives ==
    (/\ last.op = "next"
     /\ Pre[Target].kind = "map" /\ Pre[Target].st # "completed"
     /\ Pre[Pre[Target].parent].kind = "iter"
     /\ Pre[Pre[Target].parent].pos < Len(arr)) =>
        LET parent == Pre[Target].parent
        IN  /\ last.t = "value"
            /\ last.val = <<Apply(Pre[Target].fn, arr[Pre[parent].pos + 1])>>
            /\ objs[parent].pos = Pre[parent].pos + 1

\* ------------------------------------------- an array that grows under a sequence
\* array.push(Pushed), by the caller that handed the array to sequenceOf
Push ==
    /\ Len(arr) <= MaxLen
    /\ arr' = Append(arr, Pushed)
    /\ last' = [NoCall EXCEPT !.op = "push", !.t = "number", !.num = Len(arr) + 1, !.pre = Mem]
    /\ UNCHANGED <<objs, calls, text>>

NextPush ==
    \/ SequenceOf
    \/ Push
    \/ NextCall
    \/ ToArray

SpecPush == InitSource /\ [][NextPush]_vars

\* C26: a sequence over an array reads the array itself, one element per
\* pull: a pull before the sequence has signalled exhaustion gives the
\* element now at the sequence's position, were it appended after the
\* sequence was made, and a pull after exhaustion gives done whatever has
\* been appended since.
C26_ArrayNotCopied ==
    /\ (last.op = "next" /\ Pre[Target].kind = "iter") =>
           IF Pre[Target].st # "completed" /\ Pre[Target].pos < Len(arr)
           THEN last.t = "value" /\ last.val = <<arr[Pre[Target].pos + 1]>>
           ELSE last.t = "done"
    /\ (last.op = "toArray" /\ Pre[Target].kind = "iter") =>
           /\ last.t = "array"
           /\ last.val = IF Pre[Target].st # "completed"
                         THEN SubSeq(arr, Pre[Target].pos + 1, Len(arr))
                         ELSE <<>>

\* a pull gave the appended element to one sequence while another sequence
\* over the same array, exhausted before the element was appended, stays
\* behind it
C26_Witness ==
    /\ last.op = "next" /\ Len(objs) = 2
    /\ objs[1].kind = "iter" /\ objs[2].kind = "iter"
    /\ last.val = <<Pushed>> /\ Len(arr) >= 3
    /\ objs[Other].sawDone /\ objs[Other].pos < Len(arr)

\* ------------------------------------------------------ an unbounded producer
\* sequenceOf(function* () { for (let i = 1; ; i++) yield i })
InitUnbounded ==
    /\ arr = <<>>
    /\ objs = Construct([objs |-> <<>>, calls |-> 0], "naturals", 0, "function", 0).objs
    /\ calls = 0
    /\ last = NoCall
    /\ text = NoText

\* the sequences over the producer
Derived == {s \in Ids : objs[s].kind # "naturals"}

\* next(): the caller pulls the producer itself a bounded number of times
UnboundedNext ==
    \E s \in Ids :
        /\ s \notin Derived => objs[s].i < MaxPulls
        /\ LET r == SeqNext(Mem, s)
           IN  Record("next", s, 0,
                      Outcome(r.m, r.t, IF r.t = "value" THEN <<r.v>> ELSE <<>>, 0))

\* toArray() on a sequence over the producer; on the producer itself the
\* loop of toArray has no end
UnboundedToArray == \E s \in Derived : Record("toArray", s, 0, ToArrayLoop(Mem, s, <<>>))

UnboundedFilter ==
    Len(objs) < MaxChain /\ \E p \in ChainPredicates \cup Predicates : FilterOn(Len(objs), p)

NextUnbounded ==
    \/ UnboundedFilter
    \/ ChainTake
    \/ UnboundedNext
    \/ UnboundedToArray

SpecUnbounded == InitUnbounded /\ [][NextUnbounded]_vars

\* the first n of x, x + 1, x + 2, ... that satisfy p (p holds again and again)
RECURSIVE FirstMatches(_, _, _)
FirstMatches(p, n, x) ==
    IF n <= 0 THEN <<>>
    ELSE IF Apply(p, x) = 1 THEN <<x>> \o FirstMatches(p, n - 1, x + 1)
    ELSE FirstMatches(p, n, x + 1)

\* the receiver of the last call was the not yet started
\* producer.filter(p).take(n), the producer not yet pulled
OnFreshUnbounded ==
    /\ OnFreshFilterTake
    /\ Pre[1].kind = "naturals"

\* C27: over the unbounded producer of 1, 2, 3, ..., filter(p).take(n).toArray()
\* returns, and returns exactly the first n elements that satisfy p.
C27_UnboundedFilterTake ==
    (last.op = "toArray" /\ OnFreshUnbounded) =>
        /\ last.t = "array"
        /\ last.val = FirstMatches(Pre[2].fn, Pre[3].count, 1)

\* ------------------------------------------- a sequence and the one it was made of
\* what toArray would return on sequence s in memory m
WouldGive(m, s) == ToArrayLoop(m, s, <<>>).val

\* C28: driving a sequence made by map, filter, take or drop, by next() or
\* a terminal operation, whether the call returns or raises, leaves the
\* sequence it was made of where it was: that one gives afterwards exactly
\* what it would have given before.
C28_ParentUntouched ==
    (last.op \in Terminals \cup {"next"} /\ Pre[Target].kind \in Transformations) =>
        LET parent == Pre[Target].parent
        IN  /\ objs[parent] = Pre[parent]
            /\ WouldGive(Mem, parent) = WouldGive(last.pre, parent)
            /\ IsSource(Pre[parent]) => WouldGive(Mem, parent) = Remaining(Pre[parent])

\* a terminal operation raised an error on a sequence made of a source that
\* had given two elements and has two or more left
C28_Witness ==
    /\ last.op \in Terminals /\ last.t = "throw"
    /\ Pre[Target].kind \in Transformations
    /\ Pre[Pre[Target].parent].kind = "iter" /\ Pre[Pre[Target].parent].pos = 2
    /\ Len(WouldGive(Mem, Pre[Target].parent)) >= 2

\* the result of an operation on a sequence with nothing left
EmptyResult ==
    /\ last.t = CASE last.op = "next" -> "done"
                  [] last.op \in {"toArray", "toList"} -> "array"
                  [] last.op = "forEach" -> "void"
                  [] OTHER -> "number"
    /\ last.val = <<>>
    /\ last.num = IF last.op = "reduce" THEN last.arg ELSE 0

\* C29: a pull that raises an error from inside the producer hands the
\* error to the caller and leaves the sequence exhausted for good: every
\* later next() returns done and every later terminal operation returns its
\* empty result, without raising again.
C29_ThrowExhausts ==
    /\ (last.op \in Terminals \cup {"next"} /\ Pre[Target].threw) => EmptyResult
    /\ (last.t = "throw" /\ last.op \in Terminals \cup {"next"}) =>
           /\ objs[Target].threw /\ objs[Target].st = "completed"
           /\ ~Pre[Target].threw
    /\ \A s \in Ids : objs[s].threw => objs[s].st = "completed"

\* reduce ran on a sequence whose producer had thrown and returned its
\* initial value, the source still holding elements
C29_Witness ==
    /\ last.op = "reduce" /\ Pre[Target].threw
    /\ Pre[Target].kind = "filter"
    /\ last.t = "number" /\ last.num = last.arg
    /\ Len(Remaining(objs[Pre[Target].parent])) >= 2

\* ------------------------------------------------------ callbacks that throw
\* the callbacks: they throw on their n-th invocation, n in 1..MaxAt
Ats == 1..MaxAt

RECURSIVE ForEachThrowLoop(_, _, _, _)
RECURSIVE ReduceThrowLoop(_, _, _, _, _)

\* a forEach that pulls the next element before it runs the action
ForEachThrowLoopAhead(m, s, seen, at) ==
    LET r == SeqNext(m, s)
    IN  CASE r.t = "throw" -> Outcome(r.m, "throw", seen, 0)
          [] r.t = "done"  -> Outcome(r.m, "void", seen, 0)
          [] Len(seen) + 1 = at -> Outcome(SeqNext(r.m, s).m, "throw", Append(seen, r.v), 0)
          [] OTHER         -> ForEachThrowLoop(r.m, s, Append(seen, r.v), at)

\* forEach: next = this.next(); while (!next.done) { action(next.value); next = this.next() }
\* with an action that throws when invoked for the at-th time; val is what
\* action was given
ForEachThrowLoop(m, s, seen, at) ==
    LET r == SeqNext(m, s)
    IN  CASE r.t = "throw" -> Outcome(r.m, "throw", seen, 0)
          [] r.t = "done"  -> Outcome(r.m, "void", seen, 0)
          [] Len(seen) + 1 = at -> Outcome(r.m, "throw", Append(seen, r.v), 0)
          [] OTHER         -> ForEachThrowLoop(r.m, s, Append(seen, r.v), at)

\* reduce: result = reducer(result, next.value) until done, with a reducer
\* that adds and throws when invoked for the at-th time
ReduceThrowLoop(m, s, seen, result, at) ==
    LET r == SeqNext(m, s)
    IN  CASE r.t = "throw" -> Outcome(r.m, "throw", seen, 0)
          [] r.t = "done"  -> Outcome(r.m, "number", seen, result)
          [] Len(seen) + 1 = at -> Outcome(r.m, "throw", Append(seen, r.v), 0)
          [] OTHER         -> ReduceThrowLoop(r.m, s, Append(seen, r.v), Reduce2("add", result, r.v), at)

ForEachThrow ==
    \E s \in Ids, at \in Ats : Record("forEachThrow", s, at, ForEachThrowLoop(Mem, s, <<>>, at))

ReduceThrow ==
    \E s \in Ids, at \in Ats : Record("reduceThrow", s, at, ReduceThrowLoop(Mem, s, <<>>, 0, at))

NextThrow ==
    \/ SequenceOf
    \/ NextCall
    \/ ForEachThrow
    \/ ReduceThrow
    \/ ToArray

SpecThrow == InitSource /\ [][NextThrow]_vars

\* C30: when the callback of forEach or reduce throws on the i-th remaining
\* element of a source sequence, the caller gets the error, the callback
\* has been invoked for the first i remaining elements and no other, and the
\* sequence stands just after the i-th: a following toArray() returns
\* exactly the elements after it.
C30_CallbackThrows ==
    (last.op \in {"forEachThrow", "reduceThrow"} /\ IsSource(Pre[Target])) =>
        LET left == Remaining(Pre[Target])
            i == last.arg
        IN  IF i <= Len(left)
            THEN /\ last.t = "throw"
                 /\ last.val = SubSeq(left, 1, i)
                 /\ objs[Target].st = "suspendedYield"
                 /\ WouldGive(Mem, Target) = SubSeq(left, i + 1, Len(left))
            ELSE /\ last.t = IF last.op = "forEachThrow" THEN "void" ELSE "number"
                 /\ last.val = left
                 /\ WouldGive(Mem, Target) = <<>>

\* the callback of forEach threw on the second remaining element of a
\* source that had given one element, and two or more elements are left
C30_Witness ==
    /\ last.op = "forEachThrow" /\ last.t = "throw" /\ last.arg = 2
    /\ IsSource(Pre[Target]) /\ Pre[Target].resumed = 1
    /\ Len(WouldGive(Mem, Target)) >= 2
    /\ WouldGive(Mem, Target)[1] = Elements(Pre[Target])[4]

====
